---- MODULE Spec2Model ----
(***************************************************************************)
(* Model of backend/app.py: the answer synthesis of a question, the        *)
(* submission of one task, the /complete batch over a bounded thread pool, *)
(* the /tasks listing and the validation of the four POST routes.          *)
(***************************************************************************)
EXTENDS Integers, Sequences, FiniteSets, TLC

(***************************************************************************)
(* JSON / Python values.  Every value is a record tagged by k, so that     *)
(* values of different Python types can be compared.  A dict is a function *)
(* from its keys; a key that is absent is not in the domain.               *)
(***************************************************************************)
None == [k |-> "none"]
JBool(b) == [k |-> "bool", b |-> b]
JInt(n) == [k |-> "int", n |-> n]
JStr(s) == [k |-> "str", s |-> s]
\* a string whose characters matter (it goes through re.sub and strip)
JTxt(c) == [k |-> "txt", c |-> c]
JList(items) == [k |-> "list", items |-> items]
JDict(d) == [k |-> "dict", d |-> d]
EmptyFn == [x \in {} |-> None]
EmptyMap == JDict(EmptyFn)
EmptyList == JList(<<>>)

\* the outcome of an expression that raised
RaiseV == [k |-> "raise"]

\* d.get(key) and d.get(key, default) of a dict d
GetD(d, key, default) == IF key \in DOMAIN d.d THEN d.d[key] ELSE default
Get(d, key) == GetD(d, key, None)
Has(d, key) == key \in DOMAIN d.d

\* Python truthiness
Truthy(v) ==
    CASE v.k = "none" -> FALSE
      [] v.k = "bool" -> v.b
      [] v.k = "int" -> v.n # 0
      [] v.k = "str" -> v.s # ""
      [] v.k = "txt" -> v.c # <<>>
      [] v.k = "list" -> v.items # <<>>
      [] v.k = "dict" -> DOMAIN v.d # {}
      [] OTHER -> TRUE

\* str(v) of the values that are used as ids
PyStr(v) ==
    CASE v.k = "none" -> "None"
      [] v.k = "int" -> ToString(v.n)
      [] v.k = "str" -> v.s
      [] v.k = "bool" -> IF v.b THEN "True" ELSE "False"
      [] OTHER -> "?"

(***************************************************************************)
(* re.sub('<[^<]+?>', '', txt).strip() on a sequence of characters.        *)
(***************************************************************************)
\* the least j >= i+2 with s[j] = ">" and no "<" in s[i+1..j-1]; 0 if none
TagEnd(s, i) ==
    LET ends == {j \in (i + 2)..Len(s) :
                    /\ s[j] = ">"
                    /\ \A m \in (i + 1)..(j - 1) : s[m] # "<"}
    IN IF ends = {} THEN 0 ELSE CHOOSE j \in ends : \A j2 \in ends : j <= j2

RECURSIVE StripTagsFrom(_, _)
StripTagsFrom(s, i) ==
    IF i > Len(s) THEN <<>>
    ELSE IF s[i] = "<" /\ TagEnd(s, i) # 0 THEN StripTagsFrom(s, TagEnd(s, i) + 1)
    ELSE <<s[i]>> \o StripTagsFrom(s, i + 1)

StripTags(s) == StripTagsFrom(s, 1)

RECURSIVE LStrip(_)
LStrip(s) == IF s # <<>> /\ Head(s) = " " THEN LStrip(Tail(s)) ELSE s

RECURSIVE RStrip(_)
RStrip(s) ==
    IF s # <<>> /\ s[Len(s)] = " " THEN RStrip(SubSeq(s, 1, Len(s) - 1)) ELSE s

Strip(s) == RStrip(LStrip(s))

Placeholder == JStr("Resposta automática")

(***************************************************************************)
(* prepare_answer_for_question: one operator per branch of the dispatch on *)
(* the question type.  Each gives the answer, or RaiseV where the Python   *)
(* expression raises inside the try block.                                 *)
(***************************************************************************)
IsCorrect(o) == Truthy(Get(o, "correct"))

OneTrue(id) == JDict(PyStr(id) :> JBool(TRUE))

\* a variant that ignores the correct flags and always takes the first option
AnswerFirstOption(q) ==
    LET options == GetD(q, "options", EmptyList) IN
    IF options.k = "list" /\ options.items # <<>>
       /\ \A i \in DOMAIN options.items : options.items[i].k = "dict"
    THEN OneTrue(Get(options.items[1], "id"))
    ELSE EmptyMap

AnswerMultipleChoice(q) ==
    LET options == GetD(q, "options", EmptyList) IN
    CASE options.k = "list" ->
            \* o.get("correct") is evaluated for every entry
            IF \E i \in DOMAIN options.items : options.items[i].k # "dict"
            THEN RaiseV
            ELSE LET correct == SelectSeq(options.items, IsCorrect) IN
                 IF correct # <<>> THEN OneTrue(Get(correct[1], "id"))
                 ELSE IF options.items # <<>>
                      THEN OneTrue(Get(options.items[1], "id"))
                      ELSE EmptyMap
      \* iterating a dict or a string yields strings, which have no .get
      [] options.k = "dict" -> IF DOMAIN options.d = {} THEN EmptyMap ELSE RaiseV
      [] options.k = "str" -> IF options.s = "" THEN EmptyMap ELSE RaiseV
      [] options.k = "txt" -> IF options.c = <<>> THEN EmptyMap ELSE RaiseV
      \* None, a number or a boolean is not iterable
      [] OTHER -> RaiseV

\* [s.get("value") for s in items]
Values(items) == [i \in 1..Len(items) |-> Get(items[i], "value")]

AnswerOrderSentences(q) ==
    LET opts == GetD(q, "options", EmptyMap) IN
    IF opts.k # "dict" THEN RaiseV
    ELSE LET sentences == Get(opts, "sentences") IN
         IF ~Truthy(sentences) THEN EmptyList
         ELSE IF sentences.k = "list"
                 /\ \A i \in DOMAIN sentences.items : sentences.items[i].k = "dict"
              THEN JList(Values(sentences.items))
              ELSE RaiseV

\* the entries of s at the odd 0-based indices, i.e. the even 1-based ones
OddIndexed(s) == [i \in 1..(Len(s) \div 2) |-> s[2 * i]]

AnswerFillWords(q) ==
    LET opts == GetD(q, "options", EmptyMap) IN
    IF opts.k # "dict" THEN RaiseV
    ELSE LET phrase == GetD(opts, "phrase", EmptyList) IN
         IF ~Truthy(phrase) THEN EmptyList
         ELSE CASE phrase.k = "list" ->
                     LET odd == OddIndexed(phrase.items) IN
                     IF \E i \in DOMAIN odd : odd[i].k # "dict" THEN RaiseV
                     ELSE JList(Values(odd))
                \* the keys of a dict, the characters of a string: it.get
                \* raises as soon as there is an entry at index 1
                [] phrase.k = "dict" ->
                     IF Cardinality(DOMAIN phrase.d) >= 2 THEN RaiseV ELSE EmptyList
                [] phrase.k = "txt" ->
                     IF Len(phrase.c) >= 2 THEN RaiseV ELSE EmptyList
                \* a number or a boolean cannot be enumerated
                [] OTHER -> RaiseV

AnswerText(q) ==
    LET comment == Get(q, "comment")
        opts == GetD(q, "options", EmptyMap)
    IN
    IF ~Truthy(comment) /\ opts.k # "dict" THEN RaiseV
    ELSE LET txt == IF Truthy(comment) THEN comment
                    ELSE IF Truthy(Get(opts, "text")) THEN Get(opts, "text")
                    ELSE JTxt(<<>>)
         IN
         \* re.sub takes a string
         IF txt.k # "txt" THEN RaiseV
         ELSE LET clean == Strip(StripTags(txt.c)) IN
              JDict("0" :> (IF clean # <<>> THEN JTxt(clean) ELSE Placeholder))

AnswerCloud(q) ==
    LET opts == GetD(q, "options", EmptyMap) IN
    IF opts.k # "dict" THEN RaiseV ELSE GetD(opts, "ids", EmptyList)

AnswerFillLetters(q) ==
    IF ~Has(q, "options") THEN EmptyMap
    ELSE LET opts == q.d["options"] IN
         CASE opts.k = "dict" ->
                 IF Has(opts, "answer") THEN opts.d["answer"] ELSE EmptyMap
           \* "answer" in a list: membership; then list["answer"] raises
           [] opts.k = "list" ->
                 IF \E i \in DOMAIN opts.items : opts.items[i] = JStr("answer")
                 THEN RaiseV ELSE EmptyMap
           \* "answer" in a string: substring; no string here contains it
           [] opts.k \in {"str", "txt"} -> EmptyMap
           [] OTHER -> RaiseV

AnswerGeneric(q) ==
    LET opts == Get(q, "options") IN
    IF opts.k = "dict"
    THEN JDict([key \in DOMAIN opts.d |->
                   IF opts.d[key].k = "dict"
                   THEN GetD(opts.d[key], "answer", JBool(FALSE))
                   ELSE JBool(FALSE)])
    ELSE EmptyMap

TextTypes == {JStr("text_ai"), JStr("essay"), JStr("text")}

Dispatch(q) ==
    LET qtype == Get(q, "type") IN
    CASE qtype = JStr("multiple_choice") -> AnswerMultipleChoice(q)
      [] qtype = JStr("order-sentences") -> AnswerOrderSentences(q)
      [] qtype = JStr("fill-words") -> AnswerFillWords(q)
      [] qtype \in TextTypes -> AnswerText(q)
      [] qtype = JStr("cloud") -> AnswerCloud(q)
      [] qtype = JStr("fill-letters") -> AnswerFillLetters(q)
      [] OTHER -> AnswerGeneric(q)

\* the except block of prepare_answer_for_question
CaughtAnswer(a) == IF a = RaiseV THEN EmptyMap ELSE a

Parsed(qid, qtype, answer) ==
    [k |-> "parsed", question_id |-> qid, question_type |-> qtype, answer |-> answer]

\* q.get("type") and q.get("id") come before the try block: a question that
\* is not a dict raises out of the function
prepare_answer_for_question(q) ==
    IF q.k # "dict" THEN RaiseV
    ELSE Parsed(Get(q, "id"), Get(q, "type"), CaughtAnswer(Dispatch(q)))

(***************************************************************************)
(* State.                                                                  *)
(***************************************************************************)
VARIABLES
    route,        \* the route of the request being handled
    body,         \* its JSON body (a dict)
    pc,           \* the position of the request handler
    resp,         \* the HTTP response, once produced
    calls,        \* upstream calls made by the handler itself, per endpoint
    args,         \* time_min, time_max, is_draft as parsed by the handler
    tasks,        \* the task references handed to process_one_task_sync
    max_workers,  \* the size of the thread pool of /complete
    w,            \* per task: the state of its process_one_task_sync call
    results,      \* the results list of /complete
    rooms,        \* the response of the room listing call of /tasks
    order,        \* list(targets) of /tasks
    idx,          \* how many targets of order the loop of /tasks has visited
    fetched,      \* per visited target, the response of its listing call
    tasks_found,  \* the tasks_found list of /tasks
    q,            \* the question given to prepare_answer_for_question
    parsed        \* what it returned

vars == <<route, body, pc, resp, calls, args, tasks, max_workers, w, results,
          rooms, order, idx, fetched, tasks_found, q, parsed>>

reqVars == <<route, body>>
batchVars == <<tasks, max_workers, w, results>>
listVars == <<rooms, order, idx, fetched, tasks_found>>
synthVars == <<q, parsed>>

(***************************************************************************)
(* Upstream responses.                                                     *)
(***************************************************************************)
\* requests.RequestException before any response: timeout, connection error
Fault == [k |-> "fault"]
\* a response with a status code and a body; BadJson is a body r.json() rejects
Http(status, json) == [k |-> "http", status |-> status, json |-> json]
BadJson == [k |-> "badjson"]

\* r.raise_for_status() raises on 4xx and 5xx
RaisesForStatus(r) == r.status >= 400 /\ r.status < 600

NoResp == [k |-> "none"]
\* jsonify(payload), status
Response(status, payload) == [k |-> "resp", status |-> status, json |-> payload]

Message(success, msg) ==
    JDict(("success" :> JBool(success)) @@ ("message" :> JStr(msg)))

NoCalls == [auth |-> 0, rooms |-> 0, todo |-> 0]

(***************************************************************************)
(* int(x) and bool(x) of a body field.                                     *)
(***************************************************************************)
IntLiterals == -9..9

\* int(v): the number, the number a numeric string spells, 0/1 of a boolean,
\* as a JInt; RaiseV for None (TypeError) and for any other string (ValueError)
PyInt(v) ==
    CASE v.k = "int" -> v
      [] v.k = "bool" -> JInt(IF v.b THEN 1 ELSE 0)
      [] v.k = "str" ->
            IF \E n \in IntLiterals : ToString(n) = v.s
            THEN JInt(CHOOSE n \in IntLiterals : ToString(n) = v.s)
            ELSE RaiseV
      [] OTHER -> RaiseV

(***************************************************************************)
(* process_one_task_sync.                                                  *)
(***************************************************************************)
SecondsPerMinute == 60

Max(a, b) == IF a >= b THEN a ELSE b
Min(a, b) == IF a <= b THEN a ELSE b

\* a variant without the coercion to at least one minute
SecondsUncoerced(minutes) == minutes * SecondsPerMinute

\* sec_min and sec_max
Seconds(minutes) == Max(1, minutes) * SecondsPerMinute

\* random.randint(a, b): any integer of a..b; it raises when the range is empty
RandInt(a, b) == a..b

Failure(msg, task_id) ==
    JDict(("success" :> JBool(FALSE)) @@ ("message" :> JStr(msg))
          @@ ("task_id" :> task_id))

Success(task_id, result, processing_time) ==
    JDict(("success" :> JBool(TRUE)) @@ ("message" :> JStr("Enviado"))
          @@ ("task_id" :> task_id) @@ ("result" :> result)
          @@ ("processing_time" :> JInt(processing_time)))

AnswerEntry(p) ==
    JDict(("question_id" :> p.question_id) @@ ("question_type" :> p.question_type)
          @@ ("answer" :> p.answer))

\* the loop over the questions: answers_payload, or RaiseV when q.get raises
RECURSIVE AnswersFrom(_, _, _)
AnswersFrom(qs, i, acc) ==
    IF i > Len(qs) THEN JDict(acc)
    ELSE IF qs[i].k # "dict" THEN RaiseV
    ELSE IF Get(qs[i], "type") = JStr("info") THEN AnswersFrom(qs, i + 1, acc)
    ELSE LET p == prepare_answer_for_question(qs[i]) IN
         AnswersFrom(qs, i + 1, (PyStr(p.question_id) :> AnswerEntry(p)) @@ acc)

\* task_info = r.json(); questions = task_info.get("questions", []); the loop
AnswersPayload(json) ==
    IF json = BadJson \/ json.k # "dict" THEN RaiseV
    ELSE LET questions == GetD(json, "questions", EmptyList) IN
         CASE questions.k = "list" -> AnswersFrom(questions.items, 1, EmptyFn)
           [] questions.k = "dict" ->
                 IF DOMAIN questions.d = {} THEN EmptyMap ELSE RaiseV
           [] OTHER -> RaiseV

SubmitPayload(answers, is_draft) ==
    JDict(("answers" :> answers) @@ ("final" :> JBool(~is_draft))
          @@ ("status" :> JStr(IF is_draft THEN "draft" ELSE "submitted")))

NoOut == [k |-> "noout"]

\* a call that has not begun
Queued ==
    [pc |-> "queued", gets |-> 0, posts |-> 0, slept |-> FALSE, d |-> 0,
     got |-> NoResp, payload |-> None, posted |-> None, out |-> NoOut,
     collected |-> FALSE]

Return(st, outcome) == [st EXCEPT !.pc = "done", !.out = outcome]

\* a variant without the check of the id
BeginCallUnchecked(st, task_obj) ==
    IF task_obj.k # "dict" THEN Return(st, RaiseV) ELSE [st EXCEPT !.pc = "get"]

\* lines 222-225, and the except handlers when task_obj.get itself raises:
\* they call task_obj.get("id") again, so the exception leaves the function
BeginCall(st, task_obj) ==
    IF task_obj.k # "dict" THEN Return(st, RaiseV)
    ELSE IF ~Truthy(Get(task_obj, "id"))
         THEN Return(st, Failure("task sem id", None))
         ELSE [st EXCEPT !.pc = "get"]

\* a variant that tries the GET a second time after a network fault
AfterGetRetry(st, task_obj, r) ==
    LET task_id == Get(task_obj, "id")
        st1 == [st EXCEPT !.gets = @ + 1, !.got = r]
    IN
    IF r = Fault
    THEN IF st.gets = 0 THEN st1 ELSE Return(st1, Failure("request failed", task_id))
    ELSE IF RaisesForStatus(r) THEN Return(st1, Failure("HTTP error", task_id))
    ELSE LET answers == AnswersPayload(r.json) IN
         IF answers = RaiseV THEN Return(st1, Failure("bad task detail", task_id))
         ELSE [st1 EXCEPT !.payload = answers, !.pc = "pace"]

\* lines 228-243: the GET and the answers; pc = "pace" when both went well
AfterGet(st, task_obj, r) ==
    LET task_id == Get(task_obj, "id")
        st1 == [st EXCEPT !.gets = @ + 1, !.got = r]
    IN
    IF r = Fault THEN Return(st1, Failure("request failed", task_id))
    ELSE IF RaisesForStatus(r) THEN Return(st1, Failure("HTTP error", task_id))
    ELSE LET answers == AnswersPayload(r.json) IN
         IF answers = RaiseV THEN Return(st1, Failure("bad task detail", task_id))
         ELSE [st1 EXCEPT !.payload = answers, !.pc = "pace"]

\* lines 246-248: the values random.randint(sec_min, sec_max) can return
ProcessingTimes(a) == RandInt(Seconds(a.time_min), Seconds(a.time_max))

\* line 248 raising ValueError on an empty range
EmptyRange(st, task_obj) ==
    Return(st, Failure("empty range for randrange()", Get(task_obj, "id")))

\* lines 248-253: the sleep begins
StartSleep(st, processing_time) == [st EXCEPT !.d = processing_time, !.pc = "sleep"]

\* line 253
AfterSleep(st) == [st EXCEPT !.slept = TRUE, !.pc = "post"]

\* lines 255-259
AfterPost(st, task_obj, r, a) ==
    LET task_id == Get(task_obj, "id")
        st1 == [st EXCEPT !.posts = @ + 1,
                          !.posted = SubmitPayload(st.payload, a.is_draft)]
    IN
    IF r = Fault THEN Return(st1, Failure("request failed", task_id))
    ELSE IF RaisesForStatus(r) THEN Return(st1, Failure("HTTP error", task_id))
    ELSE IF r.json = BadJson THEN Return(st1, Failure("bad json", task_id))
    ELSE Return(st1, Success(task_id, r.json, st.d))

(***************************************************************************)
(* The steps of a process_one_task_sync call on task i.  Rs and Ps are the *)
(* responses the upstream may give to the GET and to the POST.             *)
(***************************************************************************)
InFlight(i) == w[i].pc \in {"get", "sleep", "post"}

Running == {i \in DOMAIN w : InFlight(i)}

\* a pool thread is free and task i is the head of the work queue
PoolTakes(i) ==
    /\ pc = "pool"
    /\ Cardinality(Running) < max_workers
    /\ \A j \in 1..(i - 1) : w[j].pc # "queued"

\* the route calls the function itself, or a pool thread does
CallBegins(i) ==
    \/ route = "process" /\ pc = "call"
    \/ route = "complete" /\ PoolTakes(i)

Begin(i) ==
    /\ w[i].pc = "queued"
    /\ CallBegins(i)
    /\ w' = [w EXCEPT ![i] = BeginCall(@, tasks[i])]
    /\ UNCHANGED <<reqVars, pc, resp, calls, args, tasks, max_workers, results,
                   listVars, synthVars>>

GetDetail(i, Rs) ==
    /\ w[i].pc = "get"
    /\ \E r \in Rs :
          LET st == AfterGet(w[i], tasks[i], r) IN
          IF st.pc # "pace" THEN w' = [w EXCEPT ![i] = st]
          ELSE IF ProcessingTimes(args) = {}
               THEN w' = [w EXCEPT ![i] = EmptyRange(st, tasks[i])]
               ELSE \E processing_time \in ProcessingTimes(args) :
                       w' = [w EXCEPT ![i] = StartSleep(st, processing_time)]
    /\ UNCHANGED <<reqVars, pc, resp, calls, args, tasks, max_workers, results,
                   listVars, synthVars>>

Sleep(i) ==
    /\ w[i].pc = "sleep"
    /\ w' = [w EXCEPT ![i] = AfterSleep(@)]
    /\ UNCHANGED <<reqVars, pc, resp, calls, args, tasks, max_workers, results,
                   listVars, synthVars>>

Post(i, Ps) ==
    /\ w[i].pc = "post"
    /\ \E r \in Ps : w' = [w EXCEPT ![i] = AfterPost(@, tasks[i], r, args)]
    /\ UNCHANGED <<reqVars, pc, resp, calls, args, tasks, max_workers, results,
                   listVars, synthVars>>

(***************************************************************************)
(* POST /task/process.                                                     *)
(***************************************************************************)
NoArgs == [time_min |-> 1, time_max |-> 3, is_draft |-> FALSE]

\* lines 273-275; RaiseV when an int() raises
ParseArgs(data) ==
    LET time_min == PyInt(GetD(data, "time_min", JInt(1)))
        time_max == PyInt(GetD(data, "time_max", JInt(3)))
    IN IF time_min = RaiseV \/ time_max = RaiseV THEN RaiseV
       ELSE [time_min |-> time_min.n, time_max |-> time_max.n,
             is_draft |-> Truthy(GetD(data, "is_draft", JBool(FALSE)))]

\* lines 269-284 up to the call; the response when there is no call
ProcessOutcome(data) ==
    IF ParseArgs(data) = RaiseV THEN Response(500, Message(FALSE, "invalid literal"))
    ELSE IF ~Truthy(Get(data, "auth_token")) \/ ~Truthy(Get(data, "task"))
         THEN Response(400, Message(FALSE, "Token e dados da tarefa obrigatórios"))
         ELSE NoResp

task_process_route ==
    /\ route = "process" /\ pc = "start"
    /\ IF ProcessOutcome(body) # NoResp
       THEN /\ resp' = ProcessOutcome(body)
            /\ pc' = "done"
            /\ UNCHANGED <<args, tasks, w>>
       ELSE /\ args' = ParseArgs(body)
            /\ tasks' = <<Get(body, "task")>>
            /\ w' = <<Queued>>
            /\ pc' = "call"
            /\ UNCHANGED resp
    /\ UNCHANGED <<reqVars, calls, max_workers, results, listVars, synthVars>>

\* lines 280-284: an exception out of the call gives the 500
ProcessResponse(out) ==
    IF out = RaiseV THEN Response(500, Message(FALSE, "no attribute get"))
    ELSE Response(200, out)

task_process_return ==
    /\ route = "process" /\ pc = "call"
    /\ w[1].pc = "done"
    /\ resp' = ProcessResponse(w[1].out)
    /\ pc' = "done"
    /\ UNCHANGED <<reqVars, calls, args, batchVars, listVars, synthVars>>

(***************************************************************************)
(* POST /complete.                                                         *)
(***************************************************************************)
PoolCap == 6

\* a variant without the cap on the pool
MaxWorkersUncapped(n) == Max(1, n)

\* line 302
MaxWorkers(n) == Min(PoolCap, Max(1, n))

\* lines 289-298; the response when the pool is not started.  The tasks field
\* is absent, null, a number or a list here; a number has no len()
CompleteOutcome(data) ==
    LET tks == GetD(data, "tasks", EmptyList) IN
    IF ParseArgs(data) = RaiseV THEN Response(500, Message(FALSE, "invalid literal"))
    ELSE IF ~Truthy(Get(data, "auth_token")) \/ ~Truthy(tks)
         THEN Response(400, Message(FALSE, "Token e tarefas obrigatórios"))
         ELSE IF tks.k # "list" THEN Response(500, Message(FALSE, "has no len()"))
              ELSE NoResp

\* lines 289-304: the futures are submitted
complete_tasks ==
    /\ route = "complete" /\ pc = "start"
    /\ IF CompleteOutcome(body) # NoResp
       THEN /\ resp' = CompleteOutcome(body)
            /\ pc' = "done"
            /\ UNCHANGED <<args, tasks, max_workers, w>>
       ELSE /\ args' = ParseArgs(body)
            /\ tasks' = Get(body, "tasks").items
            /\ max_workers' = MaxWorkers(Len(Get(body, "tasks").items))
            /\ w' = [i \in 1..Len(Get(body, "tasks").items) |-> Queued]
            /\ pc' = "pool"
            /\ UNCHANGED resp
    /\ UNCHANGED <<reqVars, calls, results, listVars, synthVars>>

\* lines 306-310: f.result(), or the outcome made of a raised exception
Collected(out) == IF out = RaiseV THEN Message(FALSE, "no attribute get") ELSE out

\* one turn of the as_completed loop, on a future that is done
Collect(i) ==
    /\ route = "complete" /\ pc = "pool"
    /\ w[i].pc = "done" /\ ~w[i].collected
    /\ results' = Append(results, Collected(w[i].out))
    /\ w' = [w EXCEPT ![i].collected = TRUE]
    /\ UNCHANGED <<reqVars, pc, resp, calls, args, tasks, max_workers,
                   listVars, synthVars>>

\* line 312
CompleteResponse(tks, res) ==
    Response(200, JDict(("success" :> JBool(TRUE))
                        @@ ("message" :> JStr("Processamento concluído para "
                                              \o ToString(Len(tks)) \o " tarefas"))
                        @@ ("results" :> JList(res))))

complete_return ==
    /\ route = "complete" /\ pc = "pool"
    /\ \A i \in DOMAIN w : w[i].collected
    /\ resp' = CompleteResponse(tasks, results)
    /\ pc' = "done"
    /\ UNCHANGED <<reqVars, calls, args, batchVars, listVars, synthVars>>

(***************************************************************************)
(* POST /auth.                                                             *)
(***************************************************************************)
\* a or b
Or(a, b) == IF Truthy(a) THEN a ELSE b

Login(data) == Or(Get(data, "ra"), Get(data, "login"))
Password(data) == Or(Get(data, "password"), Get(data, "senha"))

\* lines 37-41
auth ==
    /\ route = "auth" /\ pc = "start"
    /\ IF ~Truthy(Login(body)) \/ ~Truthy(Password(body))
       THEN /\ resp' = Response(400, Message(FALSE, "RA e senha obrigatórios"))
            /\ pc' = "done"
       ELSE /\ pc' = "auth_call"
            /\ UNCHANGED resp
    /\ UNCHANGED <<reqVars, calls, args, batchVars, listVars, synthVars>>

UserInfo(j) ==
    JDict(("success" :> JBool(TRUE)) @@ ("auth_token" :> Get(j, "auth_token"))
          @@ ("nick" :> Get(j, "nick")))

\* lines 45-65; a body that is not a JSON object ends in a 500 as well
AuthResponse(r) ==
    IF r = Fault THEN Response(500, Message(FALSE, "request failed"))
    ELSE IF r.status # 200 THEN Response(r.status, Message(FALSE, "Falha no login"))
    ELSE IF r.json = BadJson \/ r.json.k # "dict"
         THEN Response(500, Message(FALSE, "bad body"))
         ELSE Response(200, UserInfo(r.json))

auth_call(Rs) ==
    /\ route = "auth" /\ pc = "auth_call"
    /\ \E r \in Rs : resp' = AuthResponse(r)
    /\ calls' = [calls EXCEPT !.auth = @ + 1]
    /\ pc' = "done"
    /\ UNCHANGED <<reqVars, args, batchVars, listVars, synthVars>>

(***************************************************************************)
(* POST /tasks.                                                            *)
(***************************************************************************)
\* lines 83-87
tasks_generic ==
    /\ route = "tasks" /\ pc = "start"
    /\ IF ~Truthy(Get(body, "auth_token"))
       THEN /\ resp' = Response(400, Message(FALSE, "Token é obrigatório"))
            /\ pc' = "done"
       ELSE /\ pc' = "rooms"
            /\ UNCHANGED resp
    /\ UNCHANGED <<reqVars, calls, args, batchVars, listVars, synthVars>>

\* fetch_rooms raises, or rooms.get / the loop over the rooms raises
RoomsFail(r) ==
    \/ r = Fault
    \/ RaisesForStatus(r)
    \/ r.json = BadJson
    \/ r.json.k # "dict"
    \/ GetD(r.json, "rooms", EmptyList).k # "list"
    \/ \E i \in DOMAIN GetD(r.json, "rooms", EmptyList).items :
          GetD(r.json, "rooms", EmptyList).items[i].k # "dict"

\* lines 92-95: str(room["id"]) and room["name"]
RoomTargets(room) ==
    (IF Has(room, "id") THEN {JStr(PyStr(room.d["id"]))} ELSE {})
    \cup (IF Has(room, "name") THEN {room.d["name"]} ELSE {})

\* lines 90-95
Targets(json) ==
    LET rs == GetD(json, "rooms", EmptyList).items IN
    UNION {RoomTargets(rs[i]) : i \in DOMAIN rs}

\* list(targets): the elements of the set in some order
Orders(S) ==
    {f \in [1..Cardinality(S) -> S] : \A i, j \in DOMAIN f : f[i] = f[j] => i = j}

NoRooms ==
    Response(200, JDict(("success" :> JBool(TRUE)) @@ ("tasks" :> EmptyList)
                        @@ ("count" :> JInt(0))))

\* lines 89-98
fetch_rooms(Rs) ==
    /\ route = "tasks" /\ pc = "rooms"
    /\ calls' = [calls EXCEPT !.rooms = @ + 1]
    /\ \E r \in Rs :
          /\ rooms' = r
          /\ IF RoomsFail(r)
             THEN /\ resp' = Response(500, Message(FALSE, "rooms failed"))
                  /\ pc' = "done"
                  /\ UNCHANGED order
             ELSE IF Targets(r.json) = {}
                  THEN /\ resp' = NoRooms
                       /\ pc' = "done"
                       /\ UNCHANGED order
                  ELSE /\ order' \in Orders(Targets(r.json))
                       /\ pc' = "list"
                       /\ UNCHANGED resp
    /\ UNCHANGED <<reqVars, args, batchVars, idx, fetched, tasks_found, synthVars>>

\* a variant where a failed listing call is not caught
ListAbortsOnFailure(r) ==
    \/ r = Fault
    \/ r.status # 200
    \/ r.json.k = "dict" /\ Has(r.json, "tasks") /\ r.json.d["tasks"].k # "list"

\* a 200 response whose body makes tasks_found.extend raise: "tasks" holds
\* something that is not iterable
ListAborts(r) ==
    /\ r # Fault
    /\ r.status = 200
    /\ r.json.k = "dict"
    /\ Has(r.json, "tasks")
    /\ r.json.d["tasks"].k # "list"

\* lines 119-134: what one listing call adds to tasks_found
ListResult(r) ==
    IF r = Fault THEN <<>>
    ELSE IF r.status # 200 THEN <<>>
    ELSE IF r.json.k = "list" THEN r.json.items
    ELSE IF r.json.k = "dict" /\ Has(r.json, "tasks") THEN r.json.d["tasks"].items
    ELSE <<>>

list_target(Rs) ==
    /\ route = "tasks" /\ pc = "list"
    /\ idx < Len(order)
    /\ calls' = [calls EXCEPT !.todo = @ + 1]
    /\ \E r \in Rs :
          /\ fetched' = Append(fetched, r)
          /\ idx' = idx + 1
          /\ IF ListAborts(r)
             THEN /\ resp' = Response(500, Message(FALSE, "not iterable"))
                  /\ pc' = "done"
                  /\ UNCHANGED tasks_found
             ELSE /\ tasks_found' = tasks_found \o ListResult(r)
                  /\ UNCHANGED <<resp, pc>>
    /\ UNCHANGED <<reqVars, args, batchVars, rooms, order, synthVars>>

\* line 136
TasksResponse(found) ==
    Response(200, JDict(("success" :> JBool(TRUE)) @@ ("tasks" :> JList(found))
                        @@ ("count" :> JInt(Len(found)))))

tasks_return ==
    /\ route = "tasks" /\ pc = "list"
    /\ idx = Len(order)
    /\ resp' = TasksResponse(tasks_found)
    /\ pc' = "done"
    /\ UNCHANGED <<reqVars, calls, args, batchVars, listVars, synthVars>>

(***************************************************************************)
(* A call of prepare_answer_for_question by itself.                        *)
(***************************************************************************)
Synthesize ==
    /\ route = "synth" /\ pc = "start"
    /\ parsed' = prepare_answer_for_question(q)
    /\ pc' = "done"
    /\ UNCHANGED <<reqVars, resp, calls, args, batchVars, listVars, q>>

(***************************************************************************)
(* The inputs: request bodies, task references, questions and upstream     *)
(* responses, drawn from small sets.                                       *)
(***************************************************************************)
\* marks a key that a dict does not have
Absent == [k |-> "absent"]

Field(key, v) == IF v = Absent THEN EmptyFn ELSE key :> v

\* all sequences over S of length 0..n
SeqsUpTo(S, n) == UNION {[1..m -> S] : m \in 0..n}

MaxOptions == 2
MaxQuestions == 2
MaxTasks == 2
MaxRooms == 2
MaxTime == 2
PoolTasks == 7

\* ---- questions
OptionValues ==
    {JDict(Field("id", id) @@ Field("correct", c)) :
        id \in {Absent, JInt(1), JInt(2)}, c \in {Absent, JBool(TRUE), JBool(FALSE)}}
    \cup {JStr("x")}

TagText == JTxt(<<"<", "b", ">", "H", "i", "<", "/", "b", ">", " ">>)

OptionShapes ==
    {JList(items) : items \in SeqsUpTo(OptionValues, MaxOptions)}
    \cup {Absent, None, JInt(5), EmptyMap,
          JDict("sentences" :> JList(<<JDict("value" :> JStr("a")), EmptyMap>>)),
          JDict("sentences" :> JList(<<JStr("x")>>)),
          JDict("phrase" :> JList(<<JStr("x"), JDict("value" :> JStr("b")),
                                    JStr("y")>>)),
          JDict("phrase" :> JList(<<EmptyMap, JStr("x")>>)),
          JDict("text" :> TagText),
          JDict("text" :> JInt(5)),
          JDict("ids" :> JList(<<JInt(1), JInt(2)>>)),
          JDict("answer" :> JStr("abc")),
          JDict(("a" :> JDict("answer" :> JBool(TRUE))) @@ ("b" :> EmptyMap))}

QuestionTypes ==
    {JStr("multiple_choice"), JStr("order-sentences"), JStr("fill-words"),
     JStr("text_ai"), JStr("essay"), JStr("text"), JStr("cloud"),
     JStr("fill-letters"), JStr("info"), JStr("unknown"), Absent}

Question(id, type, options, comment) ==
    JDict(Field("id", id) @@ Field("type", type) @@ Field("options", options)
          @@ Field("comment", comment))

Questions ==
    {Question(id, type, options, comment) :
        id \in {Absent, JInt(7)}, type \in QuestionTypes, options \in OptionShapes,
        comment \in {Absent, TagText, JInt(5)}}
    \cup {JStr("not a question"), None}

\* the questions of the task details
GoodQuestion ==
    Question(JInt(7), JStr("multiple_choice"),
             JList(<<JDict("id" :> JInt(1)),
                     JDict(("id" :> JInt(2)) @@ ("correct" :> JBool(TRUE)))>>),
             Absent)

DetailQuestions ==
    {GoodQuestion,
     Question(JInt(8), JStr("multiple_choice"), None, Absent),
     Question(JInt(9), JStr("info"), Absent, Absent),
     JStr("not a question")}

\* ---- upstream responses
Detail(questions) == JDict(("id" :> JInt(1)) @@ ("questions" :> JList(questions)))

DetailResponses ==
    {Fault, Http(404, None), Http(200, BadJson), Http(200, EmptyList),
     Http(200, JDict("questions" :> None))}
    \cup {Http(200, Detail(qs)) : qs \in SeqsUpTo(DetailQuestions, MaxQuestions)}

PostResponses ==
    {Fault, Http(500, None), Http(200, BadJson), Http(200, JDict("ok" :> JBool(TRUE)))}

(***************************************************************************)
(* Specifications.                                                         *)
(***************************************************************************)
IdleRequest ==
    /\ pc = "start"
    /\ resp = NoResp
    /\ calls = NoCalls
    /\ args = NoArgs

IdleBatch ==
    /\ tasks = <<>>
    /\ max_workers = 0
    /\ w = <<>>
    /\ results = <<>>

IdleList ==
    /\ rooms = NoResp
    /\ order = <<>>
    /\ idx = 0
    /\ fetched = <<>>
    /\ tasks_found = <<>>

IdleSynth ==
    /\ q = None
    /\ parsed = None

\* ---- prepare_answer_for_question on every question of Questions
InitSynth ==
    /\ route = "synth"
    /\ body = EmptyMap
    /\ IdleRequest /\ IdleBatch /\ IdleList
    /\ q \in Questions
    /\ parsed = None

NextSynth == Synthesize

SpecSynth == InitSynth /\ [][NextSynth]_vars

\* ---- the four routes, each over a small set of bodies and responses
AuthBodies ==
    {JDict(Field("ra", ra) @@ Field("login", login) @@ Field("password", password)
           @@ Field("senha", senha)) :
        ra \in {Absent, JStr(""), JStr("123")}, login \in {Absent, JStr("123")},
        password \in {Absent, JStr("pw")}, senha \in {Absent, JStr("pw")}}

AuthResponses ==
    {Fault, Http(401, None), Http(200, BadJson),
     Http(200, JDict(("auth_token" :> JStr("tok")) @@ ("nick" :> JStr("n"))))}

TasksBodies == {JDict(Field("auth_token", token)) : token \in {Absent, JStr(""), JStr("tok")}}

RoomValues ==
    {JDict("id" :> JInt(1)), JDict(("id" :> JInt(1)) @@ ("name" :> JStr("A"))),
     JDict("name" :> JStr("1")), JDict("name" :> JStr("B")), EmptyMap}

RoomsResponses ==
    {Fault, Http(500, None), Http(200, BadJson)}
    \cup {Http(200, JDict("rooms" :> JList(rs))) : rs \in SeqsUpTo(RoomValues, MaxRooms)}

Summary(n) == JDict("id" :> JInt(n))

TodoResponses ==
    {Fault, Http(404, None), Http(200, JList(<<Summary(1)>>)),
     Http(200, JDict("tasks" :> JList(<<Summary(1), Summary(2)>>))),
     Http(200, EmptyMap), Http(200, JDict("tasks" :> None))}

BatchRefs == {JStr("x"), EmptyMap, JDict("id" :> JInt(1)), JDict("id" :> JInt(2))}

SmallTimeMin == {Absent, JStr("abc"), JInt(2)}
SmallTimeMax == {JInt(1), JStr("abc")}

CompleteBodies ==
    {JDict(Field("auth_token", token) @@ Field("tasks", tks)
           @@ Field("time_min", time_min) @@ Field("time_max", time_max)) :
        token \in {Absent, JStr("tok")},
        tks \in {Absent, None, JInt(5)}
                \cup {JList(refs) : refs \in SeqsUpTo(BatchRefs, MaxTasks)},
        time_min \in SmallTimeMin, time_max \in SmallTimeMax}

SingleBodies ==
    {JDict(Field("auth_token", token) @@ Field("task", task)
           @@ Field("time_min", time_min) @@ Field("time_max", time_max)) :
        token \in {Absent, JStr("tok")},
        task \in {Absent, JStr("7"), JDict("id" :> JInt(7))},
        time_min \in SmallTimeMin, time_max \in SmallTimeMax}

Bodies(r) ==
    CASE r = "auth" -> AuthBodies
      [] r = "tasks" -> TasksBodies
      [] r = "process" -> SingleBodies
      [] r = "complete" -> CompleteBodies

BatchDetailResponses ==
    {Fault, Http(404, None), Http(200, Detail(<<GoodQuestion>>)),
     Http(200, Detail(<<JStr("not a question")>>))}

BatchPostResponses == {Fault, Http(200, JDict("ok" :> JBool(TRUE)))}

Init ==
    /\ route \in {"auth", "tasks", "process", "complete"}
    /\ body \in Bodies(route)
    /\ IdleRequest /\ IdleBatch /\ IdleList /\ IdleSynth

Next ==
    \/ auth
    \/ auth_call(AuthResponses)
    \/ tasks_generic
    \/ fetch_rooms(RoomsResponses)
    \/ list_target(TodoResponses)
    \/ tasks_return
    \/ task_process_route
    \/ task_process_return
    \/ complete_tasks
    \/ \E i \in DOMAIN w : Begin(i)
    \/ \E i \in DOMAIN w : GetDetail(i, BatchDetailResponses)
    \/ \E i \in DOMAIN w : Sleep(i)
    \/ \E i \in DOMAIN w : Post(i, BatchPostResponses)
    \/ \E i \in DOMAIN w : Collect(i)
    \/ complete_return

Spec == Init /\ [][Next]_vars

\* ---- POST /complete on batches of up to PoolTasks well-formed tasks
PoolBodies ==
    {JDict(("auth_token" :> JStr("tok")) @@ ("time_max" :> JInt(1))
           @@ ("tasks" :> JList([i \in 1..n |-> JDict("id" :> JInt(1))]))) :
        n \in 1..PoolTasks}

InitPool ==
    /\ route = "complete"
    /\ body \in PoolBodies
    /\ IdleRequest /\ IdleBatch /\ IdleList /\ IdleSynth

NextPool ==
    \/ complete_tasks
    \/ \E i \in DOMAIN w : Begin(i)
    \/ \E i \in DOMAIN w : GetDetail(i, {Http(200, Detail(<<>>))})
    \/ \E i \in DOMAIN w : Sleep(i)
    \/ \E i \in DOMAIN w : Post(i, {Http(200, JDict("ok" :> JBool(TRUE)))})
    \/ \E i \in DOMAIN w : Collect(i)
    \/ complete_return

SpecPool == InitPool /\ [][NextPool]_vars

\* ---- POST /task/process over every body of ProcessBodies
TimeFields == {Absent, JStr("abc")} \cup {JInt(n) : n \in (-1)..MaxTime}

TaskRefs ==
    {JStr("7"), JDict("title" :> JStr("t")),
     JDict(("id" :> JStr("")) @@ ("title" :> JStr("t"))), JDict("id" :> JInt(7))}

ProcessBodies ==
    {JDict(Field("auth_token", token) @@ Field("task", task)
           @@ Field("time_min", time_min) @@ Field("time_max", time_max)
           @@ Field("is_draft", is_draft)) :
        token \in {Absent, JStr("tok")},
        task \in TaskRefs \cup {Absent, EmptyMap},
        time_min \in TimeFields, time_max \in TimeFields,
        is_draft \in {Absent, JBool(TRUE)}}

InitProcess ==
    /\ route = "process"
    /\ body \in ProcessBodies
    /\ IdleRequest /\ IdleBatch /\ IdleList /\ IdleSynth

NextProcess ==
    \/ task_process_route
    \/ \E i \in DOMAIN w : Begin(i)
    \/ \E i \in DOMAIN w : GetDetail(i, DetailResponses)
    \/ \E i \in DOMAIN w : Sleep(i)
    \/ \E i \in DOMAIN w : Post(i, PostResponses)
    \/ task_process_return

SpecProcess == InitProcess /\ [][NextProcess]_vars

(***************************************************************************)
(* Properties of the answer synthesis.                                     *)
(***************************************************************************)
IsMultipleChoice(x) == x.k = "dict" /\ Get(x, "type") = JStr("multiple_choice")

\* the option list of a multiple_choice question whose options, if present,
\* are a list of option objects
OptionList(x) == GetD(x, "options", EmptyList).items

HasOptionObjects(x) ==
    /\ GetD(x, "options", EmptyList).k = "list"
    /\ \A i \in DOMAIN OptionList(x) : OptionList(x)[i].k = "dict"

Flagged(x) == {i \in DOMAIN OptionList(x) : Truthy(Get(OptionList(x)[i], "correct"))}

FirstFlagged(x) == CHOOSE i \in Flagged(x) : \A j \in Flagged(x) : i <= j

\* C9: for a multiple_choice question whose options are a list of option
\* objects, the answer is the one-entry map {id: true} where id is (the string
\* form of) the id of the first option flagged correct if there is one,
\* otherwise of the first option of a non-empty list; with an empty or absent
\* option list the answer is the empty map.
C9_MultipleChoiceAnswer ==
    (pc = "done" /\ route = "synth" /\ IsMultipleChoice(q) /\ HasOptionObjects(q)) =>
        /\ parsed.question_type = JStr("multiple_choice")
        /\ Flagged(q) # {} =>
              /\ DOMAIN parsed.answer.d = {PyStr(Get(OptionList(q)[FirstFlagged(q)], "id"))}
              /\ \A key \in DOMAIN parsed.answer.d : parsed.answer.d[key] = JBool(TRUE)
        /\ (Flagged(q) = {} /\ OptionList(q) # <<>>) =>
              /\ DOMAIN parsed.answer.d = {PyStr(Get(OptionList(q)[1], "id"))}
              /\ \A key \in DOMAIN parsed.answer.d : parsed.answer.d[key] = JBool(TRUE)
        /\ OptionList(q) = <<>> => parsed.answer = EmptyMap

\* a question answered whose second option is the first one flagged correct
C9_Witness ==
    /\ pc = "done" /\ route = "synth"
    /\ IsMultipleChoice(q) /\ HasOptionObjects(q)
    /\ Len(OptionList(q)) = 2
    /\ Flagged(q) = {2}
    /\ Get(OptionList(q)[1], "id") = JInt(1)
    /\ parsed.answer = JDict("2" :> JBool(TRUE))

(***************************************************************************)
(* Properties of process_one_task_sync.                                    *)
(***************************************************************************)
Done(i) == w[i].pc = "done"

IsOutcome(out) == out.k = "dict" /\ Has(out, "success") /\ Has(out, "task_id")

IsFailure(out) == IsOutcome(out) /\ out.d["success"] = JBool(FALSE)

IsSuccess(out) == IsOutcome(out) /\ out.d["success"] = JBool(TRUE)

\* C3: process_one_task_sync returns a Task Outcome on every path and lets no
\* exception escape, whatever the task reference, the pacing bounds and the
\* upstream responses.
C3_AlwaysReturnsOutcome ==
    \A i \in DOMAIN w : Done(i) => IsOutcome(w[i].out)

LacksId(task) == task.k = "dict" /\ ~Truthy(Get(task, "id"))

\* C4: a call on a task reference (a key-value object) whose id is absent or
\* empty has returned a failure outcome as soon as it has begun, with no
\* detail GET, no answer POST and no pacing sleep.
C4_NoIdNoCall ==
    \A i \in DOMAIN w :
        (w[i].pc # "queued" /\ LacksId(tasks[i])) =>
            /\ Done(i)
            /\ IsFailure(w[i].out)
            /\ w[i].gets = 0 /\ w[i].posts = 0
            /\ ~w[i].slept /\ w[i].d = 0

C4_Witness ==
    /\ route = "process"
    /\ \E i \in DOMAIN w :
          /\ LacksId(tasks[i]) /\ Has(tasks[i], "id")
          /\ Done(i) /\ IsFailure(w[i].out)

\* the pacing bounds in seconds, as the claim states them
LowSeconds == 60 * (IF args.time_min < 1 THEN 1 ELSE args.time_min)
HighSeconds == 60 * (IF args.time_max < 1 THEN 1 ELSE args.time_max)

\* the GET came back without an error status / and answers_payload was built
GetSucceeded(i) == w[i].got.k = "http" /\ ~RaisesForStatus(w[i].got)
AnswersBuilt(i) == GetSucceeded(i) /\ w[i].payload # None

\* C5 as claimed: for all pacing bounds, time_min > time_max included, a task
\* whose detail GET succeeded sleeps d seconds with
\* 60*max(1,time_min) <= d <= 60*max(1,time_max) and the POST is then issued.
\* (Stated here for the tasks whose answers were built as well, so that it
\* fails on the pacing bounds alone.)
C5_AlwaysSleepsThenPosts ==
    \A i \in DOMAIN w :
        (Done(i) /\ AnswersBuilt(i)) =>
            /\ w[i].slept
            /\ LowSeconds <= w[i].d /\ w[i].d <= HighSeconds
            /\ w[i].posts = 1

\* C5 amended: when max(1,time_min) <= max(1,time_max) a task whose answers
\* were built sleeps d seconds within the bounds and then issues its POST;
\* when max(1,time_min) > max(1,time_max) the range is empty, the task neither
\* sleeps nor POSTs and returns a failure outcome; a task whose answers could
\* not be built does not sleep or POST either.
C5_PacingWithinBounds ==
    \A i \in DOMAIN w :
        /\ (w[i].pc \in {"sleep", "post"} \/ w[i].slept) =>
              /\ AnswersBuilt(i)
              /\ LowSeconds <= w[i].d /\ w[i].d <= HighSeconds
        /\ w[i].posts > 0 => w[i].slept
        /\ (Done(i) /\ AnswersBuilt(i) /\ LowSeconds <= HighSeconds) =>
              w[i].slept /\ w[i].posts = 1
        /\ (Done(i) /\ AnswersBuilt(i) /\ LowSeconds > HighSeconds) =>
              ~w[i].slept /\ w[i].posts = 0 /\ IsFailure(w[i].out)
        /\ (Done(i) /\ GetSucceeded(i) /\ ~AnswersBuilt(i)) =>
              ~w[i].slept /\ w[i].posts = 0 /\ IsFailure(w[i].out)

\* a task given time_min below 1 that slept the least allowed time and posted
C5_Witness ==
    /\ route = "process"
    /\ args.time_min < 1 /\ args.time_max > 1
    /\ \E i \in DOMAIN w :
          Done(i) /\ w[i].slept /\ w[i].d = LowSeconds /\ w[i].posts = 1

\* the detail is a readable body with a list of questions
HasQuestionList(i) ==
    /\ GetSucceeded(i)
    /\ w[i].got.json # BadJson
    /\ w[i].got.json.k = "dict"
    /\ GetD(w[i].got.json, "questions", EmptyList).k = "list"

\* C7: whatever the questions of a fetched task are (options missing, null or
\* of the wrong shape, or a question that is itself malformed), the failure
\* stays with that question and the answers of the task are still built.
C7_BadQuestionNeverAborts ==
    \A i \in DOMAIN w : (Done(i) /\ HasQuestionList(i)) => w[i].payload # None

(***************************************************************************)
(* Properties of the /complete batch.                                      *)
(***************************************************************************)
Answered == pc = "done" /\ resp # NoResp

BatchAnswered == route = "complete" /\ Answered /\ resp.status = 200 /\ tasks # <<>>

\* C1: the results of a batch of N >= 1 task references are exactly N
\* outcomes, each carrying a task_id equal to the id of one input task,
\* whatever mix of tasks succeed, fail in process_one_task_sync, or fail with
\* an exception caught by the loop over the futures.
C1_EveryOutcomeIdentified ==
    BatchAnswered =>
        /\ Len(results) = Len(tasks)
        /\ resp.json.d["results"] = JList(results)
        /\ \A n \in DOMAIN results :
              /\ Has(results[n], "task_id")
              /\ \E i \in DOMAIN tasks :
                    /\ tasks[i].k = "dict"
                    /\ results[n].d["task_id"] = Get(tasks[i], "id")

\* tasks whose call has started and has not produced its outcome
Submitting == {i \in DOMAIN w : w[i].pc \notin {"queued", "done"}}

\* C2: the pool of a batch of N >= 1 tasks has exactly min(6, N) workers, and
\* at most 6 and at most N submissions are in flight at any time.
C2_PoolBounded ==
    (route = "complete" /\ tasks # <<>>) =>
        /\ max_workers = (IF Len(tasks) < 6 THEN Len(tasks) ELSE 6)
        /\ Cardinality(Submitting) <= 6
        /\ Cardinality(Submitting) <= Len(tasks)

\* a batch of more than 6 tasks with 6 submissions in flight and one waiting
C2_Witness ==
    /\ route = "complete" /\ pc = "pool"
    /\ Len(tasks) > 6
    /\ Cardinality(Submitting) = 6
    /\ \E i \in DOMAIN w : w[i].pc = "queued"

\* what a step may do to the calls: it advances at most one of them, and a
\* call that has returned keeps its outcome and its upstream calls
OneCallPerStep ==
    \A i \in DOMAIN w :
        /\ i \in DOMAIN w'
        /\ w'[i] # w[i] => \A j \in DOMAIN w \ {i} : w'[j] = w[j]
        /\ Done(i) => /\ w'[i].out = w[i].out
                      /\ w'[i].gets = w[i].gets
                      /\ w'[i].posts = w[i].posts

AtMostOnce ==
    \A i \in DOMAIN w :
        /\ w[i].gets <= 1 /\ w[i].posts <= 1
        /\ w[i].posts = 1 => w[i].gets = 1 /\ GetSucceeded(i) /\ w[i].slept
        /\ (Done(i) /\ w[i].got = Fault) => IsFailure(w[i].out) /\ w[i].posts = 0

\* C10: each task of a batch gets at most one detail GET and at most one
\* answer POST, the POST only after its GET succeeded and its sleep ended;
\* a step of one task (a failed GET or POST included) leaves the upstream
\* calls and the outcome of every other task as they were.
C10_NoRetryNoInterference == []AtMostOnce /\ [][OneCallPerStep]_vars

\* a batch answered where one task failed at its GET and a sibling was posted
C10_Witness ==
    /\ BatchAnswered
    /\ \E i, j \in DOMAIN w :
          /\ i < j
          /\ w[i].got = Fault /\ IsFailure(w[i].out) /\ w[i].posts = 0
          /\ w[j].gets = 1 /\ w[j].posts = 1 /\ IsSuccess(w[j].out)

(***************************************************************************)
(* Properties of /tasks.                                                   *)
(***************************************************************************)
RoomCallFailed == rooms = Fault \/ (rooms.k = "http" /\ rooms.status >= 400)

\* the listing call of a target failed: a network fault or a non-200 status
TargetFailed(r) == r = Fault \/ r.status # 200

\* a 200 listing body whose tasks entry is not a list
Unreadable(r) ==
    ~TargetFailed(r) /\ r.json.k = "dict" /\ Has(r.json, "tasks")
    /\ r.json.d["tasks"].k # "list"

\* the tasks a target's listing call returned; none when the call failed
TargetTasks(r) ==
    IF TargetFailed(r) THEN <<>>
    ELSE IF r.json.k = "list" THEN r.json.items
    ELSE IF r.json.k = "dict" /\ Has(r.json, "tasks") THEN r.json.d["tasks"].items
    ELSE <<>>

RECURSIVE ConcatTasks(_)
ConcatTasks(rs) ==
    IF rs = <<>> THEN <<>> ELSE TargetTasks(Head(rs)) \o ConcatTasks(Tail(rs))

\* C6: a failed room listing call aborts /tasks with a failure response and
\* no task listing call; a failed listing call (network fault or non-200) of a
\* target does not: every target gets its call, and the response is a success
\* whose tasks are the concatenation of what the other targets returned and
\* whose count is the length of that list.
C6_ListingFailures ==
    /\ (route = "tasks" /\ Answered /\ RoomCallFailed) =>
          /\ resp.status = 500
          /\ resp.json.d["success"] = JBool(FALSE)
          /\ calls.todo = 0
    /\ (route = "tasks" /\ pc = "list") =>
          /\ resp = NoResp
          /\ calls.todo = Len(fetched)
          /\ \A n \in DOMAIN fetched : ~Unreadable(fetched[n])
    /\ (route = "tasks" /\ Answered /\ order # <<>>
        /\ \A n \in DOMAIN fetched : ~Unreadable(fetched[n])) =>
          /\ Len(fetched) = Len(order)
          /\ calls.todo = Len(order)
          /\ resp.status = 200
          /\ resp.json.d["success"] = JBool(TRUE)
          /\ resp.json.d["tasks"] = JList(ConcatTasks(fetched))
          /\ resp.json.d["count"] = JInt(Len(ConcatTasks(fetched)))

\* a listing answered where one target's call failed and a later one gave tasks
C6_Witness ==
    /\ route = "tasks" /\ Answered /\ resp.status = 200
    /\ Len(order) >= 2
    /\ \E m, n \in DOMAIN fetched :
          m < n /\ TargetFailed(fetched[m]) /\ TargetTasks(fetched[n]) # <<>>
    /\ resp.json.d["count"] # JInt(0)

(***************************************************************************)
(* Validation of the request bodies.                                       *)
(***************************************************************************)
Lacks(key) == ~Has(body, key) \/ ~Truthy(body.d[key])

MissingRequired ==
    CASE route = "auth" ->
            (Lacks("ra") /\ Lacks("login")) \/ (Lacks("password") /\ Lacks("senha"))
      [] route = "tasks" -> Lacks("auth_token")
      [] route = "process" -> Lacks("auth_token") \/ Lacks("task")
      [] route = "complete" -> Lacks("auth_token") \/ Lacks("tasks")
      [] OTHER -> FALSE

NoUpstreamCall ==
    /\ calls = NoCalls
    /\ \A i \in DOMAIN w : w[i].gets = 0 /\ w[i].posts = 0

\* C8: a request to /auth, /tasks, /task/process or /complete that lacks a
\* required field is answered with HTTP 400 and success=false and makes no
\* upstream call, whatever its other fields (time_min, time_max, is_draft) hold.
C8_MissingFieldIs400 ==
    (Answered /\ MissingRequired) =>
        /\ resp.status = 400
        /\ resp.json.d["success"] = JBool(FALSE)
        /\ NoUpstreamCall

====
